---- MODULE Spec2Model ----
(***************************************************************************)
(* The prediction history store of src/prediction_logger.py                *)
(* (class PredictionLogger): a JSON file holding a list of log entries,    *)
(* rewritten whole by every append and clear, read whole by every query.   *)
(*                                                                         *)
(* Representation                                                          *)
(*   - the backing file is a record [kind, doc]: kind says what a reader   *)
(*     finds ("absent", "garbage" for an empty, truncated or otherwise     *)
(*     unparseable text, "scalar" for a JSON document that is no array,    *)
(*     "list" for a JSON array) and doc is the sequence of entries the     *)
(*     document holds;                                                     *)
(*   - wall-clock time is a tick counter; strftime("%Y-%m-%d") is the day  *)
(*     number tick \div TicksPerDay, strftime("%H:%M:%S") the tick within  *)
(*     the day;                                                            *)
(*   - a confidence is a natural number of 1/10000ths (0.9 is 9000);       *)
(*   - None is the string "None", and -1 where a number is expected        *)
(*     (processing_time, in milliseconds).                                 *)
(***************************************************************************)
EXTENDS Integers, Sequences, FiniteSets, TLC

VARIABLES
    file,      \* content of the file at log_file_path
    now,       \* the wall clock, in ticks
    budget,    \* appends the run may still perform (bounds the exploration)
    op,        \* name of the operation that ran last ("init" at the start)
    arg,       \* its argument: the limit, the date, the request and clock readings
               \* of log_prediction, the results and success count of a batch,
               \* today's date for get_statistics, 0 otherwise
    ok,        \* boolean result of the last operation, TRUE where it returns none;
               \* for a query, FALSE when the call raised
    out,       \* sequence or dict returned by the last operation, <<>> where it
               \* returns none
    before,    \* content of the file when the last operation started
    io,        \* what the file system did to the last operation: whether the
               \* file could be read, and how the write ended
    streak,    \* successful appends in a row since the store was empty, -1 once
               \* broken; in the runs of two threads, the length the log had when
               \* the run started
    fresh,     \* "cleared" after a successful clear, "first" after the first
               \* successful append that follows it, "later" after the next ones
    calls      \* the call each thread is in the middle of, for the runs in
               \* which two threads share the logger

vars == <<file, now, budget, op, arg, ok, out, before, io, streak, fresh, calls>>

(***************************************************************************)
(* Program constant and bounds of the model                                *)
(***************************************************************************)
MAX_LOGS == 1000          \* retention cap

TicksPerDay == 2          \* clock ticks in one calendar day
MaxClock == 2             \* the clock stops advancing here
MaxAppends == 2           \* appends explored in a run over a new store
MaxLimit == 2             \* largest limit passed to get_recent_logs

None == "None"

(***************************************************************************)
(* Python list slicing, seq[start:] and seq[:stop]                         *)
(***************************************************************************)
PySliceFrom(seq, start) ==
    LET n == Len(seq)
        s == IF start < 0
             THEN (IF n + start < 0 THEN 0 ELSE n + start)
             ELSE (IF start > n THEN n ELSE start)
    IN  SubSeq(seq, s + 1, n)

PySliceTo(seq, stop) ==
    LET n == Len(seq)
        e == IF stop < 0
             THEN (IF n + stop < 0 THEN 0 ELSE n + stop)
             ELSE (IF stop > n THEN n ELSE stop)
    IN  SubSeq(seq, 1, e)

(***************************************************************************)
(* datetime.now().strftime(...)                                            *)
(***************************************************************************)
DateOf(t) == t \div TicksPerDay
TimeOf(t) == t % TicksPerDay

(***************************************************************************)
(* The backing file                                                        *)
(***************************************************************************)
AbsentFile  == [kind |-> "absent",  doc |-> <<>>]
GarbageFile == [kind |-> "garbage", doc |-> <<>>]

\* json.dump(logs, f): the document a complete write leaves behind
JsonDump(logs) == [kind |-> "list", doc |-> logs]

\* (mutant) read_logs without the isinstance(logs, list) test
read_logs_NoListTest(f, readable) ==
    IF ~readable THEN <<>>
    ELSE IF f.kind = "absent" THEN <<>>
    ELSE IF f.kind = "garbage" THEN <<>>
    ELSE f.doc

\* read_logs: [] for every file that cannot be opened, read or parsed,
\* and for a parsed document that is no list
read_logs(f, readable) ==
    IF ~readable THEN <<>>
    ELSE IF f.kind = "absent" THEN <<>>
    ELSE IF f.kind = "garbage" THEN <<>>
    ELSE IF f.kind # "list" THEN <<>>
    ELSE f.doc

(***************************************************************************)
(* Inputs: what the request handlers pass to the logger                    *)
(***************************************************************************)
Cat == [class_id |-> "n01", class_name |-> "cat", confidence |-> 9000,
        confidence_percentage |-> "90.00%"]
Dog == [class_id |-> "n02", class_name |-> "dog", confidence |-> 5000,
        confidence_percentage |-> "50.00%"]
Fox == [class_id |-> "n03", class_name |-> "fox", confidence |-> 3000,
        confidence_percentage |-> "30.00%"]
Owl == [class_id |-> "n04", class_name |-> "owl", confidence |-> 1000,
        confidence_percentage |-> "10.00%"]
\* a prediction dict without the key "class_name"
NoName == [class_id |-> "n05", confidence |-> 2000, confidence_percentage |-> "20.00%"]
\* a prediction dict carrying a value json cannot encode (an ndarray)
Tensor == [class_id |-> "n06", class_name |-> "emu", confidence |-> 4000,
           confidence_percentage |-> "40.00%", embedding |-> "ndarray"]

Request(f, p, rt, ip, pt) ==
    [filename |-> f, predictions |-> p, request_type |-> rt,
     user_ip |-> ip, processing_time |-> pt]

RequestInputs ==
    { Request("my cat.jpg", <<Cat>>, "single", "10.0.0.1", 120),
      Request("", <<>>, "single", None, -1),
      Request("x.jpg", <<NoName>>, "single", None, -1),
      Request("y.jpg", <<Tensor>>, "single", None, -1) }

\* what the file system does to one call: whether the file can be opened
\* and read, and how the write ends
WriteOutcomes == {"ok", "open_fails", "write_fails"}
Env(r, w) == [readable |-> r, write |-> w]
EnvInputs ==
    { Env(TRUE, "ok"), Env(FALSE, "ok"), Env(TRUE, "open_fails"), Env(TRUE, "write_fails") }
NoEnv == Env(TRUE, "none")

\* the three datetime.now() calls of one log_prediction: the ticks that pass
\* between the first and the second, and between the second and the third
ClockInputs == { <<0, 0>>, <<1, 0>> }

(***************************************************************************)
(* log_prediction                                                          *)
(***************************************************************************)
\* werkzeug's secure_filename on the names used here
secure_filename(name) ==
    CASE name = "my cat.jpg" -> "my_cat.jpg"
      [] OTHER -> name

\* json.dump raises TypeError on a value it cannot encode
JsonEncodable(logs) ==
    \A i \in 1..Len(logs) :
        \A k \in 1..Len(logs[i].all_predictions) :
            "embedding" \notin DOMAIN logs[i].all_predictions[k]

\* (mutant) predictions[0] read without the test for an empty list
TopPredictionRaises_OnEmpty(predictions) ==
    \/ Len(predictions) = 0
    \/ ~({"class_name", "confidence", "confidence_percentage"} \subseteq DOMAIN predictions[1])

\* predictions[0]["class_name"] etc. raise KeyError on a missing key
TopPredictionRaises(predictions) ==
    /\ Len(predictions) > 0
    /\ ~({"class_name", "confidence", "confidence_percentage"} \subseteq DOMAIN predictions[1])

top_prediction(predictions) ==
    IF Len(predictions) > 0
    THEN [class_name |-> predictions[1].class_name,
          confidence |-> predictions[1].confidence,
          confidence_percentage |-> predictions[1].confidence_percentage]
    ELSE [class_name |-> "unknown", confidence |-> 0, confidence_percentage |-> "0.00%"]

\* (mutant) the id of the new entry, one too small
NextId_OffByOne(logs) == Len(logs)

\* line 51: the id of the new entry
NextId(logs) == Len(logs) + 1

\* (mutant) an entry that keeps every prediction it was given
log_entry_KeepsAll(logs, req, t1, t2, t3) ==
    [id |-> NextId(logs),
     timestamp |-> t1,
     filename |-> IF req.filename # "" THEN secure_filename(req.filename) ELSE "unknown",
     request_type |-> req.request_type,
     top_prediction |-> top_prediction(req.predictions),
     total_predictions |-> Len(req.predictions),
     all_predictions |-> req.predictions,
     user_ip |-> req.user_ip,
     processing_time |-> req.processing_time,
     date |-> DateOf(t2),
     time |-> TimeOf(t3)]

\* the dict built at lines 50-66; t1, t2, t3 are the three clock readings
log_entry(logs, req, t1, t2, t3) ==
    [id |-> NextId(logs),
     timestamp |-> t1,
     filename |-> IF req.filename # "" THEN secure_filename(req.filename) ELSE "unknown",
     request_type |-> req.request_type,
     top_prediction |-> top_prediction(req.predictions),
     total_predictions |-> Len(req.predictions),
     all_predictions |-> PySliceTo(req.predictions, 3),
     user_ip |-> req.user_ip,
     processing_time |-> req.processing_time,
     date |-> DateOf(t2),
     time |-> TimeOf(t3)]

\* (mutant) rotation that keeps the first 1000 entries
Rotate_KeepsOldest(logs) ==
    IF Len(logs) > MAX_LOGS
    THEN LET kept == PySliceTo(logs, MAX_LOGS)
         IN  [i \in 1..Len(kept) |-> [kept[i] EXCEPT !.id = i]]
    ELSE logs

\* (mutant) rotation that starts one entry late
Rotate_LateThreshold(logs) ==
    IF Len(logs) > MAX_LOGS + 1
    THEN LET kept == PySliceFrom(logs, 0 - MAX_LOGS)
         IN  [i \in 1..Len(kept) |-> [kept[i] EXCEPT !.id = i]]
    ELSE logs

\* (mutant) rotation that does not renumber
Rotate_NoRenumber(logs) ==
    IF Len(logs) > MAX_LOGS
    THEN PySliceFrom(logs, 0 - MAX_LOGS)
    ELSE logs

\* lines 72-76: keep the last 1000 entries and renumber them
Rotate(logs) ==
    IF Len(logs) > MAX_LOGS
    THEN LET kept == PySliceFrom(logs, 0 - MAX_LOGS)
         IN  [i \in 1..Len(kept) |-> [kept[i] EXCEPT !.id = i]]
    ELSE logs

\* lines 79-80: open(path, 'w') truncates the file, json.dump then writes the
\* document piece by piece; a failure after the open leaves a partial text
WriteLogs(f, logs, w) ==
    IF w = "open_fails" THEN [file |-> f, ok |-> FALSE]
    ELSE IF w = "write_fails" \/ ~JsonEncodable(logs)
         THEN [file |-> GarbageFile, ok |-> FALSE]
    ELSE [file |-> JsonDump(logs), ok |-> TRUE]

\* the whole of log_prediction: the file it leaves and the value it returns
log_prediction(f, req, t1, t2, t3, env) ==
    LET logs == read_logs(f, env.readable)
    IN  IF TopPredictionRaises(req.predictions)
        THEN [file |-> f, ok |-> FALSE]
        ELSE WriteLogs(f, Rotate(Append(logs, log_entry(logs, req, t1, t2, t3))), env.write)

\* (mutant) clear_logs that reports success without emptying the file
clear_logs_KeepsFile(f, w) ==
    IF w = "open_fails" THEN [file |-> f, ok |-> FALSE]
    ELSE IF w = "write_fails" THEN [file |-> GarbageFile, ok |-> FALSE]
    ELSE [file |-> f, ok |-> TRUE]

\* clear_logs
clear_logs(f, w) ==
    IF w = "open_fails" THEN [file |-> f, ok |-> FALSE]
    ELSE IF w = "write_fails" THEN [file |-> GarbageFile, ok |-> FALSE]
    ELSE [file |-> JsonDump(<<>>), ok |-> TRUE]

(***************************************************************************)
(* log_batch_predictions                                                   *)
(***************************************************************************)
Success(i, p) == [image_index |-> i, status |-> "success", predictions |-> p]
Failure(i)    == [image_index |-> i, status |-> "error", error |-> "bad image"]

BatchInputs ==
    { <<>>,
      <<Failure(0)>>,
      <<Success(0, <<Cat>>), Failure(1)>>,
      <<Success(0, <<Cat>>), Success(1, <<>>)>>,
      <<Success(0, <<Tensor>>), Success(1, <<Dog, Fox, Owl, Cat>>)>> }

BatchCaller == <<"10.0.0.2", 300>>

\* what the file system does to the calls of one batch of n results
BatchEnvInputs(n) ==
    { [k \in 1..n |-> Env(TRUE, "ok")],
      [k \in 1..n |-> IF k = 1 THEN Env(TRUE, "write_fails") ELSE Env(TRUE, "ok")],
      [k \in 1..n |-> IF k = 1 THEN Env(TRUE, "open_fails") ELSE Env(TRUE, "ok")],
      [k \in 1..n |-> IF k = n THEN Env(TRUE, "write_fails") ELSE Env(TRUE, "ok")],
      [k \in 1..n |-> Env(TRUE, "open_fails")] }

\* (mutant) the call made with the index read from a key no result has
BatchRequest_NoIndex(result, user_ip, processing_time) ==
    Request("batch_image_" \o ToString(
                (IF "index" \in DOMAIN result THEN result.index ELSE 0) + 1),
            IF "predictions" \in DOMAIN result THEN result.predictions ELSE <<>>,
            "batch", user_ip, processing_time)

\* the call of lines 113-119 for one result
BatchRequest(result, user_ip, processing_time) ==
    Request("batch_image_" \o ToString(
                (IF "image_index" \in DOMAIN result THEN result.image_index ELSE 0) + 1),
            IF "predictions" \in DOMAIN result THEN result.predictions ELSE <<>>,
            "batch", user_ip, processing_time)

\* (mutant) a loop that logs every result that has a status
IsSuccess_AnyStatus(result) == "status" \in DOMAIN result

\* result.get("status") == "success"
IsSuccess(result) == "status" \in DOMAIN result /\ result.status = "success"

\* the file after the loop has handled the first k results; envs[i] is what
\* the file system does to the call made for result i, t the clock reading,
\* caller the pair <<user_ip, processing_time>>
RECURSIVE BatchFile(_, _, _, _, _, _)
BatchFile(f, results, caller, envs, t, k) ==
    IF k = 0 THEN f
    ELSE LET prev == BatchFile(f, results, caller, envs, t, k - 1)
         IN  IF IsSuccess(results[k])
             THEN log_prediction(prev, BatchRequest(results[k], caller[1], caller[2]),
                                 t, t, t, envs[k]).file
             ELSE prev

\* whether the call made for result k returned True
BatchCallOk(f, results, caller, envs, t, k) ==
    /\ IsSuccess(results[k])
    /\ log_prediction(BatchFile(f, results, caller, envs, t, k - 1),
                      BatchRequest(results[k], caller[1], caller[2]), t, t, t, envs[k]).ok

\* caller is <<user_ip, processing_time>>
log_batch_predictions(f, results, caller, envs, t) ==
    LET success_count ==
            Cardinality({k \in 1..Len(results) :
                            BatchCallOk(f, results, caller, envs, t, k)})
    IN  [file |-> BatchFile(f, results, caller, envs, t, Len(results)),
         ok |-> success_count > 0,
         count |-> success_count]

(***************************************************************************)
(* The queries                                                             *)
(***************************************************************************)
get_recent_logs(f, limit, readable) ==
    LET logs == read_logs(f, readable)
    IN  IF Len(logs) > 0 THEN PySliceFrom(logs, 0 - limit) ELSE <<>>

\* A JSON array may hold values that are no objects; such a value is written
\* here as a record with the one field json_number.
JsonNumber(n) == [json_number |-> n]
IsDict(v) == "json_number" \notin DOMAIN v

\* log.get(...) raises AttributeError on a value that is no dict
GetRaises(logs) == \E i \in 1..Len(logs) : ~IsDict(logs[i])

\* d.get(key, default), and d.get(key) == value
DictGet(d, key, default) == IF key \in DOMAIN d THEN d[key] ELSE default
DictHas(d, key, value) == key \in DOMAIN d /\ d[key] = value

\* (mutant) get_logs_by_date that compares the time field
get_logs_by_date_ByTime(f, date, readable) ==
    LET logs == read_logs(f, readable)
    IN  SelectSeq(logs, LAMBDA log : log.time = date)

get_logs_by_date(f, date, readable) ==
    LET logs == read_logs(f, readable)
    IN  SelectSeq(logs, LAMBDA log : DictHas(log, "date", date))

\* the list comprehension of get_logs_by_date calls log.get on every element
get_logs_by_date_raises(f, readable) == GetRaises(read_logs(f, readable))

(***************************************************************************)
(* get_statistics                                                          *)
(*                                                                         *)
(* average_confidence is a number of hundredths of a percent (70.0 is      *)
(* 7000).                                                                  *)
(***************************************************************************)
\* (mutant) statistics of an empty log that name the placeholder class
EmptyStatistics_Unknown ==
    [total_predictions |-> 0, today_predictions |-> 0,
     most_common_class |-> "unknown", average_confidence |-> 0,
     single_requests |-> 0, batch_requests |-> 0]

\* the dict returned when read_logs returns no entry
EmptyStatistics ==
    [total_predictions |-> 0, today_predictions |-> 0,
     most_common_class |-> "N/A", average_confidence |-> 0,
     single_requests |-> 0, batch_requests |-> 0]

\* (mutant) today's logs taken to be those stamped at the current time of day
today_logs_ByTime(logs, today) ==
    SelectSeq(logs, LAMBDA log : DictHas(log, "time", today))

today_logs(logs, today) ==
    SelectSeq(logs, LAMBDA log : DictHas(log, "date", today))

\* the three values the loop reads from one entry
ClassNameOf(log) == DictGet(DictGet(log, "top_prediction", <<>>), "class_name", "unknown")
ConfidenceOf(log) == DictGet(DictGet(log, "top_prediction", <<>>), "confidence", 0)
RequestTypeOf(log) == DictGet(log, "request_type", "single")

\* the keys of class_counts, in the order the loop inserted them
RECURSIVE ClassKeys(_)
ClassKeys(logs) ==
    IF Len(logs) = 0 THEN <<>>
    ELSE LET prev == ClassKeys(SubSeq(logs, 1, Len(logs) - 1))
             c    == ClassNameOf(logs[Len(logs)])
         IN  IF \E k \in 1..Len(prev) : prev[k] = c THEN prev ELSE Append(prev, c)

\* class_counts[c] after the loop
ClassCount(logs, c) == Cardinality({ i \in 1..Len(logs) : ClassNameOf(logs[i]) = c })

\* (mutant) a max that keeps the last of the largest items
RECURSIVE PyMax_KeepsLast(_, _, _)
PyMax_KeepsLast(keys, logs, k) ==
    IF k <= 1 THEN k
    ELSE LET m == PyMax_KeepsLast(keys, logs, k - 1)
         IN  IF ClassCount(logs, keys[k]) >= ClassCount(logs, keys[m]) THEN k ELSE m

\* max(class_counts.items(), key=count) over the first k items: the position
\* of the first item that has the largest count
RECURSIVE PyMax(_, _, _)
PyMax(keys, logs, k) ==
    IF k <= 1 THEN k
    ELSE LET m == PyMax(keys, logs, k - 1)
         IN  IF ClassCount(logs, keys[k]) > ClassCount(logs, keys[m]) THEN k ELSE m

most_common_class(logs) ==
    LET keys == ClassKeys(logs)
    IN  IF Len(keys) > 0 THEN keys[PyMax(keys, logs, Len(keys))] ELSE "N/A"

RECURSIVE confidence_sum(_)
confidence_sum(logs) ==
    IF Len(logs) = 0 THEN 0
    ELSE confidence_sum(SubSeq(logs, 1, Len(logs) - 1)) + ConfidenceOf(logs[Len(logs)])

\* num / den rounded to the nearest integer, halves to the even one
RoundHalfEven(num, den) ==
    LET q == num \div den
        r == num % den
    IN  IF 2 * r < den THEN q
        ELSE IF 2 * r > den THEN q + 1
        ELSE IF q % 2 = 0 THEN q ELSE q + 1

\* (mutant) the mean taken over the classes instead of the entries
average_confidence_PerClass(logs) ==
    RoundHalfEven(confidence_sum(logs) * 100 * 100,
                  Len(ClassKeys(logs)) * 10000)

\* round(confidence_sum / total_predictions * 100, 2), confidences being
\* 1/10000ths and the result hundredths
average_confidence(logs) ==
    RoundHalfEven(confidence_sum(logs) * 100 * 100, Len(logs) * 10000)

single_requests(logs) ==
    Cardinality({ i \in 1..Len(logs) : RequestTypeOf(logs[i]) = "single" })

\* (mutant) a counter for the entries marked "batch" only
batch_requests_OnlyBatch(logs) ==
    Cardinality({ i \in 1..Len(logs) : RequestTypeOf(logs[i]) = "batch" })

batch_requests(logs) ==
    Cardinality({ i \in 1..Len(logs) : RequestTypeOf(logs[i]) # "single" })

\* today is the date datetime.now() gives during the call
get_statistics(f, today, readable) ==
    LET logs == read_logs(f, readable)
    IN  IF Len(logs) = 0 THEN EmptyStatistics
        ELSE [total_predictions |-> Len(logs),
              today_predictions |-> Len(today_logs(logs, today)),
              most_common_class |-> most_common_class(logs),
              average_confidence |-> average_confidence(logs),
              single_requests |-> single_requests(logs),
              batch_requests |-> batch_requests(logs)]

\* log.get raises in the comprehension that selects today's logs
get_statistics_raises(f, readable) == GetRaises(read_logs(f, readable))

(***************************************************************************)
(* Bookkeeping of the run (history variables, no part of the program)      *)
(***************************************************************************)
EmptyStore(f) == read_logs(f, TRUE) = <<>>

\* streak after one log_prediction call that returned r_ok and left fileAfter
StreakAfter(s, r_ok, readable, fileAfter) ==
    IF r_ok /\ readable
    THEN (IF s >= 0 /\ s < MAX_LOGS THEN s + 1 ELSE -1)
    ELSE (IF EmptyStore(fileAfter) THEN 0 ELSE -1)

SinceAfter(c, r_ok) ==
    IF r_ok THEN (IF c = "cleared" THEN "first" ELSE "later") ELSE c

RECURSIVE BatchStreak(_, _, _, _, _, _)
BatchStreak(f, results, envs, t, k, s) ==
    IF k = 0 THEN s
    ELSE LET prev == BatchStreak(f, results, envs, t, k - 1, s)
         IN  IF IsSuccess(results[k])
             THEN StreakAfter(prev, BatchCallOk(f, results, BatchCaller, envs, t, k),
                              envs[k].readable,
                              BatchFile(f, results, BatchCaller, envs, t, k))
             ELSE prev

RECURSIVE BatchSince(_, _, _, _, _, _)
BatchSince(f, results, envs, t, k, c) ==
    IF k = 0 THEN c
    ELSE SinceAfter(BatchSince(f, results, envs, t, k - 1, c),
                    BatchCallOk(f, results, BatchCaller, envs, t, k))

(***************************************************************************)
(* The state machine                                                       *)
(***************************************************************************)
\* the log an earlier run of the program left behind after n appends; its
\* entries differ in processing_time
PreviousRun(n) ==
    [i \in 1..n |->
        [log_entry(<<>>, Request("old.jpg", <<Owl>>, "single", None, i), 0, 0, 0)
            EXCEPT !.id = i]]

\* a JSON object that wraps one entry, {"logs": [...]}: a document that is
\* no list
ScalarFile == [kind |-> "scalar", doc |-> PreviousRun(1)]

\* what the constructor may find at log_file_path: no history
NewFiles == { AbsentFile, GarbageFile, ScalarFile, JsonDump(<<>>) }

\* ... or the history of an earlier run, one entry below the cap or at it
OldFiles == { JsonDump(PreviousRun(MAX_LOGS - 1)), JsonDump(PreviousRun(MAX_LOGS)) }

\* __init__: create the file with [] when it does not exist
ensure_log_file_exists(f, w) ==
    IF f.kind = "absent"
    THEN (IF w = "open_fails" THEN f
          ELSE IF w = "write_fails" THEN GarbageFile
          ELSE JsonDump(<<>>))
    ELSE f

\* the threads that may share one logger, and a thread that is in no call
Threads == {1, 2}
NoCall == [pc |-> "idle", kind |-> "none", seen |-> <<>>, logs |-> <<>>,
           clean |-> TRUE, ret |-> FALSE]
NoCalls == [p \in Threads |-> NoCall]

\* the state after PredictionLogger(): over a store without history the run
\* explores MaxAppends appends; over a store near the cap it explores one
\* append, made when the clock has reached MaxClock
InitOver(files) ==
    /\ \E f \in files, w \in WriteOutcomes : file = ensure_log_file_exists(f, w)
    /\ now = IF EmptyStore(file) THEN 0 ELSE MaxClock
    /\ budget = IF EmptyStore(file) THEN MaxAppends ELSE 1
    /\ op = "init"
    /\ arg = 0
    /\ ok = TRUE
    /\ out = <<>>
    /\ before = file
    /\ io = NoEnv
    /\ streak = Len(read_logs(file, TRUE))
    /\ fresh = "none"
    /\ calls = NoCalls

Init == InitOver(NewFiles)

InitCap == InitOver(NewFiles \cup OldFiles)

LogPrediction ==
    \E req \in RequestInputs, c \in ClockInputs, env \in EnvInputs :
        LET t1 == now
            t2 == t1 + c[1]
            t3 == t2 + c[2]
            r  == log_prediction(file, req, t1, t2, t3, env)
        IN  /\ budget > 0
            /\ t3 <= MaxClock
            /\ file' = r.file
            /\ ok' = r.ok
            /\ now' = t3
            /\ budget' = IF r.ok THEN budget - 1 ELSE budget
            /\ op' = "log_prediction"
            /\ arg' = [req |-> req, t |-> <<t1, t2, t3>>]
            /\ out' = <<>>
            /\ before' = file
            /\ io' = env
            /\ streak' = StreakAfter(streak, r.ok, env.readable, r.file)
            /\ fresh' = SinceAfter(fresh, r.ok)
            /\ UNCHANGED calls

LogBatchPredictions ==
    \E results \in BatchInputs :
        \E envs \in BatchEnvInputs(Len(results)) :
            LET t == now
                r == log_batch_predictions(file, results, BatchCaller, envs, t)
            IN  /\ Cardinality({k \in 1..Len(results) : IsSuccess(results[k])}) <= budget
                /\ file' = r.file
                /\ ok' = r.ok
                /\ now' = t
                /\ budget' = budget - r.count
                /\ op' = "log_batch_predictions"
                /\ arg' = [results |-> results,
                            envs |-> [k \in 1..Len(results) |->
                                         IF IsSuccess(results[k]) THEN envs[k] ELSE NoEnv],
                            count |-> r.count]
                /\ out' = <<>>
                /\ before' = file
                /\ io' = NoEnv
                /\ streak' = BatchStreak(file, results, envs, t, Len(results), streak)
                /\ fresh' = BatchSince(file, results, envs, t, Len(results), fresh)
                /\ UNCHANGED calls

ClearLogs ==
    \E w \in WriteOutcomes :
        LET r == clear_logs(file, w)
        IN  /\ file' = r.file
            /\ ok' = r.ok
            /\ op' = "clear_logs"
            /\ arg' = 0
            /\ out' = <<>>
            /\ before' = file
            /\ io' = Env(TRUE, w)
            /\ streak' = IF EmptyStore(r.file) THEN 0 ELSE -1
            /\ fresh' = IF r.ok THEN "cleared" ELSE fresh
            /\ UNCHANGED <<now, budget, calls>>

\* (mutant) a read that rewrites a file it could not use
ReadLogs_Repairs ==
    \E readable \in BOOLEAN :
        /\ out' = read_logs(file, readable)
        /\ file' = IF ~readable \/ file.kind # "list" THEN JsonDump(<<>>) ELSE file
        /\ op' = "read_logs"
        /\ arg' = 0
        /\ before' = file
        /\ io' = Env(readable, "none")
        /\ ok' = TRUE
        /\ UNCHANGED <<now, budget, streak, fresh, calls>>

ReadLogs ==
    \E readable \in BOOLEAN :
        /\ out' = read_logs(file, readable)
        /\ op' = "read_logs"
        /\ arg' = 0
        /\ before' = file
        /\ io' = Env(readable, "none")
        /\ ok' = TRUE
        /\ UNCHANGED <<file, now, budget, streak, fresh, calls>>

GetRecentLogs ==
    \E limit \in 0..MaxLimit :
        /\ out' = get_recent_logs(file, limit, TRUE)
        /\ op' = "get_recent_logs"
        /\ arg' = limit
        /\ before' = file
        /\ io' = Env(TRUE, "none")
        /\ ok' = TRUE
        /\ UNCHANGED <<file, now, budget, streak, fresh, calls>>

GetLogsByDate ==
    \E date \in 0..(DateOf(MaxClock) + 1) :
        /\ ok' = ~get_logs_by_date_raises(file, TRUE)
        /\ out' = IF ok' THEN get_logs_by_date(file, date, TRUE) ELSE <<>>
        /\ op' = "get_logs_by_date"
        /\ arg' = date
        /\ before' = file
        /\ io' = Env(TRUE, "none")
        /\ UNCHANGED <<file, now, budget, streak, fresh, calls>>

GetStatistics ==
    /\ ok' = ~get_statistics_raises(file, TRUE)
    /\ out' = IF ok' THEN get_statistics(file, DateOf(now), TRUE) ELSE <<>>
    /\ op' = "get_statistics"
    /\ arg' = DateOf(now)
    /\ before' = file
    /\ io' = Env(TRUE, "none")
    /\ UNCHANGED <<file, now, budget, streak, fresh, calls>>

\* time passes between two requests
Tick ==
    /\ now < MaxClock
    /\ now' = now + 1
    /\ op' = "tick"
    /\ arg' = 0
    /\ ok' = TRUE
    /\ out' = <<>>
    /\ before' = file
    /\ io' = NoEnv
    /\ UNCHANGED <<file, budget, streak, fresh, calls>>

Next ==
    \/ Tick
    \/ LogPrediction
    \/ LogBatchPredictions
    \/ ClearLogs
    \/ ReadLogs
    \/ GetRecentLogs
    \/ GetLogsByDate
    \/ GetStatistics

\* runs of a logger constructed over a store without history
Spec == Init /\ [][Next]_vars

\* the appends, clears and list queries, without the statistics
NextCap ==
    \/ Tick
    \/ LogPrediction
    \/ LogBatchPredictions
    \/ ClearLogs
    \/ ReadLogs
    \/ GetRecentLogs
    \/ GetLogsByDate

\* the same runs, together with runs of a logger constructed over a store
\* that an earlier run filled up to the cap; the statistics are left to Spec
SpecCap == InitCap /\ [][NextCap]_vars

\* documents that parse as a list and were written by no logger: [1, 2] and
\* [{"note": "x"}]
NumbersFile == JsonDump(<<JsonNumber(1), JsonNumber(2)>>)
NotesFile == JsonDump(<<[note |-> "x"]>>)
ForeignFiles == { NumbersFile, NotesFile }

\* a log written through log_prediction with three values of request_type,
\* followed by an entry from which the key request_type was removed
TypedEntry(i, rt) ==
    [log_entry(<<>>, Request("old.jpg", <<Owl>>, rt, None, i), 0, 0, 0) EXCEPT !.id = i]
Untyped(e) == [k \in DOMAIN e \ {"request_type"} |-> e[k]]
TypedFile ==
    JsonDump(<<TypedEntry(1, "single"), TypedEntry(2, "batch"), TypedEntry(3, "api"),
               Untyped(TypedEntry(4, "single"))>>)

InitRead == InitOver(NewFiles \cup ForeignFiles \cup {TypedFile})

NextRead ==
    \/ Tick
    \/ ReadLogs
    \/ GetRecentLogs
    \/ GetLogsByDate
    \/ GetStatistics

\* the queries of a logger constructed over whatever is at log_file_path
SpecRead == InitRead /\ [][NextRead]_vars

(***************************************************************************)
(* Two threads sharing the logger.  A call is no longer one step: a        *)
(* log_prediction reads the log and builds the new list (lines 46-76),     *)
(* opens the file for writing, which empties it (line 79), and writes the  *)
(* document (line 80); a clear_logs opens (line 206) and writes (line      *)
(* 207).  calls[p] holds where thread p is (pc), the method it is in       *)
(* (kind), the log it read (seen), the list it is about to write (logs),   *)
(* whether the file was left alone since p opened it (clean), and the      *)
(* value its last call returned (ret).                                     *)
(***************************************************************************)
MaxCalls == 3             \* calls started in a run of the two threads

\* what each thread logs
ThreadRequest(p) ==
    IF p = 1 THEN Request("my cat.jpg", <<Cat>>, "single", "10.0.0.1", 120)
    ELSE Request("", <<>>, "single", None, -1)

\* (mutant) a write that leaves alone a document written since the open
DumpOutcomes_KeepsFirst(c, f) ==
    IF f.kind = "list" THEN {f} ELSE {JsonDump(c.logs)}

\* What json.dump and the close leave in the file.  Each writer writes from
\* offset 0 of the file it opened.  When the file was left alone since the
\* open, it holds the writer's document.  When another thread wrote its own
\* document in between (the file holds a list), the bytes of that document
\* beyond the writer's own remain, and the text parses only if there are
\* none; when another thread emptied the file after the writer had flushed a
\* part of a long document, a gap precedes the rest.
DumpOutcomes(c, f) ==
    IF f.kind = "list" \/ ~c.clean
    THEN {JsonDump(c.logs), GarbageFile}
    ELSE {JsonDump(c.logs)}

\* the history variables after a step of thread p
Stepped(name, p) ==
    /\ op' = name
    /\ arg' = p
    /\ ok' = TRUE
    /\ out' = <<>>
    /\ before' = file
    /\ io' = NoEnv
    /\ streak' = streak
    /\ fresh' = "none"
    /\ now' = now

BeginAppend(p) ==
    LET logs == read_logs(file, TRUE)
        new  == Rotate(Append(logs, log_entry(logs, ThreadRequest(p), now, now, now)))
    IN  /\ calls[p].pc = "idle"
        /\ budget > 0
        /\ budget' = budget - 1
        /\ calls' = [calls EXCEPT ![p] =
                        [pc |-> "open", kind |-> "log_prediction", seen |-> logs,
                         logs |-> new, clean |-> TRUE, ret |-> FALSE]]
        /\ file' = file
        /\ Stepped("begin_append", p)

BeginClear(p) ==
    /\ calls[p].pc = "idle"
    /\ budget > 0
    /\ budget' = budget - 1
    /\ calls' = [calls EXCEPT ![p] =
                    [pc |-> "open", kind |-> "clear_logs", seen |-> <<>>,
                     logs |-> <<>>, clean |-> TRUE, ret |-> FALSE]]
    /\ file' = file
    /\ Stepped("begin_clear", p)

\* open(self.log_file_path, 'w')
Open(p) ==
    /\ calls[p].pc = "open"
    /\ file' = GarbageFile
    /\ calls' = [q \in Threads |->
                    IF q = p THEN [calls[q] EXCEPT !.pc = "dump"]
                    ELSE IF calls[q].pc = "dump" THEN [calls[q] EXCEPT !.clean = FALSE]
                    ELSE calls[q]]
    /\ budget' = budget
    /\ Stepped("open", p)

\* json.dump(...), the close of the file, and the return
Dump(p) ==
    /\ calls[p].pc = "dump"
    /\ \E f \in DumpOutcomes(calls[p], file) : file' = f
    /\ calls' = [calls EXCEPT ![p] = [@ EXCEPT !.pc = "idle", !.ret = TRUE]]
    /\ budget' = budget
    /\ Stepped("dump", p)

InitConc ==
    /\ file \in { JsonDump(<<>>), JsonDump(PreviousRun(1)) }
    /\ now = 0
    /\ budget = MaxCalls
    /\ op = "init"
    /\ arg = 0
    /\ ok = TRUE
    /\ out = <<>>
    /\ before = file
    /\ io = NoEnv
    /\ streak = Len(read_logs(file, TRUE))
    /\ fresh = "none"
    /\ calls = NoCalls

NextConc ==
    \E p \in Threads :
        \/ BeginAppend(p)
        \/ BeginClear(p)
        \/ Open(p)
        \/ Dump(p)

\* runs in which two threads call log_prediction and clear_logs on one logger
SpecConc == InitConc /\ [][NextConc]_vars

(***************************************************************************)
(* The two front-ends handling one uploaded image: the Flask route         *)
(* classify_single_image (src/api_routes.py) and the Streamlit handler     *)
(* process_single_image (src/streamlit_app.py).  An upload is a record     *)
(* [field, name, content]: whether the request carries the file field,     *)
(* the file name, and what the bytes are ("image" for a picture PIL        *)
(* accepts with sides of 32 to 4096 pixels, "tiny" for one below 32,       *)
(* "corrupt" for bytes PIL rejects).  The classifier either returns its    *)
(* list of predictions or raises.  A response is a record [status,         *)
(* predictions]: the HTTP status of the route, "result" or "None" for what *)
(* the Streamlit handler returns.                                          *)
(***************************************************************************)
Upload(fld, name, content) == [field |-> fld, name |-> name, content |-> content]

UploadInputs ==
    { Upload(FALSE, "", "image") }
    \cup { Upload(TRUE, name, content) :
              name \in {"cat.jpg", "photo.PNG", "notes.txt", "README", ""},
              content \in {"image", "tiny", "corrupt"} }

ClassifierInputs == {"returns", "raises"}

\* what classifier.classify_image returns for a picture
Classified == <<Cat, Dog>>

\* utils.allowed_file: the text after the last dot, lower-cased, is an
\* allowed extension
allowed_file(name) ==
    CASE name = "cat.jpg"   -> TRUE
      [] name = "photo.PNG" -> TRUE
      [] name = "notes.txt" -> FALSE
      [] OTHER -> FALSE

\* utils.validate_image_file: raises ValueError for bytes that are no image
\* of an accepted size, and returns None otherwise
validate_image_file(upload) ==
    IF upload.content = "image"
    THEN [raised |-> FALSE, value |-> None]
    ELSE [raised |-> TRUE, value |-> None]

Response(status, predictions) == [status |-> status, predictions |-> predictions]

\* the Flask route: the response, and the file it leaves (it never calls the
\* logger)
classify_single_image(upload, classifier, f) ==
    LET response ==
            IF ~upload.field THEN Response("400", <<>>)
            ELSE IF upload.name = "" THEN Response("400", <<>>)
            ELSE IF ~allowed_file(upload.name) THEN Response("400", <<>>)
            ELSE IF validate_image_file(upload).raised THEN Response("400", <<>>)
            ELSE IF classifier = "raises" THEN Response("500", <<>>)
            ELSE Response("200", Classified)
    IN  [response |-> response, file |-> f, logged |-> FALSE]

\* the Streamlit handler: validation_result is what validate_image_file
\* returned, and validation_result["valid"] raises TypeError when that is
\* None; every exception ends in the handler's except clause, which returns
\* None
process_single_image(upload, classifier, f, t, env) ==
    LET validation == validate_image_file(upload)
        failed     == [response |-> Response("None", <<>>), file |-> f, logged |-> FALSE]
    IN  IF validation.raised THEN failed
        ELSE IF validation.value = None THEN failed
        ELSE IF ~validation.value.valid THEN failed
        ELSE IF classifier = "raises" THEN failed
        ELSE [response |-> Response("result", Classified),
              file |-> log_prediction(f, Request(upload.name, Classified, "single",
                                                 "streamlit-user", 120), t, t, t, env).file,
              logged |-> TRUE]

\* the history variables after a request was handled
Handled(name, upload, classifier, env, r) ==
    /\ file' = r.file
    /\ out' = r.response
    /\ ok' = r.logged
    /\ op' = name
    /\ arg' = [upload |-> upload, classifier |-> classifier]
    /\ before' = file
    /\ io' = env
    /\ streak' = -1
    /\ fresh' = "none"
    /\ UNCHANGED <<now, budget, calls>>

ClassifySingleImage ==
    \E upload \in UploadInputs, classifier \in ClassifierInputs :
        Handled("classify_single_image", upload, classifier, NoEnv,
                classify_single_image(upload, classifier, file))

ProcessSingleImage ==
    \E upload \in UploadInputs, classifier \in ClassifierInputs,
       env \in {Env(TRUE, "ok"), Env(TRUE, "open_fails")} :
        Handled("process_single_image", upload, classifier, env,
                process_single_image(upload, classifier, file, now, env))

NextFront ==
    \/ ClassifySingleImage
    \/ ProcessSingleImage

\* requests served by the two front-ends over a new store
SpecFront == Init /\ [][NextFront]_vars

(***************************************************************************)
(* The launchers: main() of src/app_launcher.py and main() of src/main.py. *)
(* One run of a launcher is one step; what it does is a sequence of        *)
(* events, "flask_import_failed" (an import of flask or of the Flask app   *)
(* raised), "flask_start" (gunicorn was exec'ed or app.run called),        *)
(* "flask_failed" (that server did not come up) and "streamlit_start"      *)
(* (run_streamlit_app was called), and a result: "True", "False" or "None" *)
(* for the value main() returns, "replaced" when os.execvp turned the      *)
(* process into gunicorn, "raised" when an exception left main().          *)
(*                                                                         *)
(* The environment of a run: the module names import finds, the value of   *)
(* FORCE_STREAMLIT and of FLASK_ENV, whether the imports of                *)
(* try_flask_import work, what os.execvp('gunicorn') does ("missing":      *)
(* FileNotFoundError; "denied": another OSError; "serves"; "exits": the    *)
(* exec worked and gunicorn then failed to start), what app.run does       *)
(* ("returns", "raises" an Exception, "interrupted" by KeyboardInterrupt,  *)
(* "exits" with SystemExit), and what run_streamlit_app meets              *)
(* ("import_fails", "run_fails", "returns", "interrupted").                *)
(***************************************************************************)
\* check_dependencies asks for these names with __import__
RequiredPackages == {"flask", "streamlit", "tensorflow", "pillow"}

\* an installation of the four distributions (Pillow installs the module
\* PIL, none of them a module named pillow), the same with a module named
\* pillow on the path, and the latter without Flask
ModuleInputs ==
    { {"flask", "streamlit", "tensorflow", "PIL"},
      {"flask", "streamlit", "tensorflow", "PIL", "pillow"},
      {"streamlit", "tensorflow", "PIL", "pillow"} }

LaunchEnv(m, force, fenv, imp, g, run, st) ==
    [modules |-> m, FORCE_STREAMLIT |-> force, FLASK_ENV |-> fenv,
     flask_import |-> imp, gunicorn |-> g, app_run |-> run, streamlit |-> st]

LaunchInputs ==
    { LaunchEnv(m, force, fenv, imp, g, run, st) :
        m \in ModuleInputs,
        force \in {"", "true", "Yes", "0"},
        fenv \in {"development", "production"},
        imp \in {"ok", "fails"},
        g \in {"missing", "denied", "serves", "exits"},
        run \in {"returns", "raises", "interrupted", "exits"},
        st \in {"import_fails", "run_fails", "returns", "interrupted"} }

\* the environments that can exist: the app imports need flask, and
\* streamlit runs only where it is installed
Possible(env) ==
    /\ env.flask_import = "ok" => "flask" \in env.modules
    /\ env.streamlit # "import_fails" => "streamlit" \in env.modules

Launched(events, result) == [events |-> events, result |-> result]

check_dependencies(env) == RequiredPackages \subseteq env.modules

\* os.getenv('FORCE_STREAMLIT', '').lower() in ['true', '1', 'yes']
force_streamlit(env) ==
    LET lower == CASE env.FORCE_STREAMLIT = "Yes" -> "yes"
                   [] OTHER -> env.FORCE_STREAMLIT
    IN  lower \in {"true", "1", "yes"}

\* run_streamlit_app, called after the events so far
run_streamlit_app(env, events) ==
    LET started == Append(events, "streamlit_start")
    IN  CASE env.streamlit = "returns"     -> Launched(started, "True")
          [] env.streamlit = "interrupted" -> Launched(started, "raised")
          [] OTHER                         -> Launched(started, "False")

\* app.run(...) of the Flask development server, and what follows it in
\* app_launcher.main
FlaskDevServer(env, events) ==
    LET started == Append(events, "flask_start")
    IN  CASE env.app_run = "returns"     -> Launched(started, "True")
          [] env.app_run = "interrupted" -> Launched(started, "True")
          [] env.app_run = "exits"       ->
                 Launched(Append(started, "flask_failed"), "raised")
          [] OTHER                       ->
                 run_streamlit_app(env, Append(started, "flask_failed"))

\* main() of app_launcher.py
app_launcher_main(env) ==
    IF ~check_dependencies(env)
    THEN Launched(IF "flask" \in env.modules THEN <<>> ELSE <<"flask_import_failed">>,
                  "False")
    ELSE IF force_streamlit(env) THEN run_streamlit_app(env, <<>>)
    ELSE IF env.flask_import = "fails"
         THEN run_streamlit_app(env, <<"flask_import_failed">>)
    ELSE IF env.FLASK_ENV # "development" /\ env.gunicorn # "missing"
         THEN CASE env.gunicorn = "serves" -> Launched(<<"flask_start">>, "replaced")
                [] env.gunicorn = "exits"  ->
                       Launched(<<"flask_start", "flask_failed">>, "replaced")
                [] OTHER ->
                       run_streamlit_app(env, <<"flask_start", "flask_failed">>)
    ELSE FlaskDevServer(env, <<>>)

\* main() of main.py
main_py_main(env) ==
    IF force_streamlit(env) THEN run_streamlit_app(env, <<>>)
    ELSE IF env.flask_import = "fails"
         THEN run_streamlit_app(env, <<"flask_import_failed">>)
    ELSE CASE env.app_run = "returns"     -> Launched(<<"flask_start">>, "None")
           [] env.app_run = "interrupted" -> Launched(<<"flask_start">>, "raised")
           [] env.app_run = "exits"       ->
                  Launched(<<"flask_start", "flask_failed">>, "raised")
           [] OTHER ->
                  run_streamlit_app(env, <<"flask_start", "flask_failed">>)

\* the history variables after a launcher has run
Ran(name, env, r) ==
    /\ op = "init"
    /\ Possible(env)
    /\ op' = name
    /\ arg' = env
    /\ out' = r
    /\ ok' = (r.result = "True")
    /\ before' = file
    /\ io' = NoEnv
    /\ UNCHANGED <<file, now, budget, streak, fresh, calls>>

AppLauncherMain ==
    \E env \in LaunchInputs : Ran("app_launcher.main", env, app_launcher_main(env))

MainPyMain ==
    \E env \in LaunchInputs : Ran("main.main", env, main_py_main(env))

NextLaunch ==
    \/ AppLauncherMain
    \/ MainPyMain

\* one run of one of the launchers in a new process
SpecLaunch == Init /\ [][NextLaunch]_vars

(***************************************************************************)
(* Properties                                                              *)
(*                                                                         *)
(* A successful append is a log_prediction call that returned True and     *)
(* met no I/O failure, the read of the log included (ok /\ io.readable).   *)
(***************************************************************************)
\* what read_logs returns for the file as it is / as it was before the last
\* operation, the file being readable
Logs == read_logs(file, TRUE)
LogsBefore == read_logs(before, TRUE)

Appended == op = "log_prediction" /\ ok /\ io.readable

Min(a, b) == IF a < b THEN a ELSE b

\* C1: starting from an empty store, after N successful appends in a row,
\* N <= 1000, read_logs returns exactly N entries whose ids are 1..N, in
\* insertion order: each append left the earlier entries in place and put
\* its own entry last.
C1_AppendsNumbered ==
    streak \in 0..MAX_LOGS =>
        /\ Len(Logs) = streak
        /\ \A i \in 1..Len(Logs) : Logs[i].id = i
        /\ (Appended /\ streak >= 1) =>
              /\ SubSeq(Logs, 1, streak - 1) = LogsBefore
              /\ Logs[streak].timestamp = arg.t[1]
              /\ Logs[streak].request_type = arg.req.request_type
              /\ Logs[streak].total_predictions = Len(arg.req.predictions)

\* two successful appends in a row over a store that started empty
C1_Witness ==
    /\ Appended
    /\ streak = 2
    /\ Len(LogsBefore) = 1
    /\ Len(Logs) = 2

\* C2: a successful append to a log of exactly 1000 entries leaves 1000
\* entries: the oldest is dropped, the other 999 keep their order and are
\* followed by the new entry, and the ids are renumbered 1..1000.
C2_RotationDropsOldest ==
    (Appended /\ Len(LogsBefore) = MAX_LOGS) =>
        /\ Len(Logs) = MAX_LOGS
        /\ \A i \in 1..(MAX_LOGS - 1) : Logs[i] = [LogsBefore[i + 1] EXCEPT !.id = i]
        /\ Logs[MAX_LOGS].id = MAX_LOGS
        /\ Logs[MAX_LOGS].timestamp = arg.t[1]
        /\ Logs[MAX_LOGS].processing_time = arg.req.processing_time
        /\ Logs[MAX_LOGS].total_predictions = Len(arg.req.predictions)

C2_Witness ==
    /\ Appended
    /\ Len(LogsBefore) = MAX_LOGS
    /\ Len(Logs) = MAX_LOGS
    /\ Logs[1].processing_time = 2

\* C3: the persisted log never holds more than 1000 entries.
C3_AtMostCap == Len(Logs) <= MAX_LOGS

\* a batch has appended to a log that was at the cap
C3_Witness ==
    /\ op = "log_batch_predictions"
    /\ ok
    /\ Len(LogsBefore) = MAX_LOGS
    /\ Len(Logs) = MAX_LOGS

\* C4: the entry at position i of the persisted log has id i.
C4_DenseIds == \A i \in 1..Len(Logs) : Logs[i].id = i

\* the ids after a rotation
C4_Witness ==
    /\ Appended
    /\ Len(LogsBefore) = MAX_LOGS
    /\ Logs[1].id = 1
    /\ Logs[MAX_LOGS].id = MAX_LOGS

\* C5: get_recent_logs(limit), limit >= 0, returns the last
\* min(limit, length) entries of the log in their original order.
C5_RecentLastMin ==
    op = "get_recent_logs" =>
        LET n == Len(Logs)
            m == Min(arg, n)
        IN  out = SubSeq(Logs, n - m + 1, n)

\* C6: get_logs_by_date(d) returns exactly the entries whose date is d, in
\* their original order, and the answers for the dates present in the log
\* hold every entry of the log exactly once.
C6_Answer(r, d) ==
    /\ \A k \in 1..Len(r) : r[k].date = d /\ \E i \in 1..Len(Logs) : Logs[i] = r[k]
    /\ \A i \in 1..Len(Logs) : Logs[i].date = d => \E k \in 1..Len(r) : r[k] = Logs[i]
    /\ \A k \in 1..(Len(r) - 1) : r[k].id < r[k + 1].id

C6_ByDate ==
    /\ op = "get_logs_by_date" => C6_Answer(out, arg)
    /\ LET dates == { Logs[i].date : i \in 1..Len(Logs) }
       IN  /\ \A d \in dates : C6_Answer(get_logs_by_date(file, d, TRUE), d)
           /\ \A i \in 1..Len(Logs) :
                 Cardinality({ d \in dates :
                     \E k \in 1..Len(get_logs_by_date(file, d, TRUE)) :
                         get_logs_by_date(file, d, TRUE)[k] = Logs[i] }) = 1

\* a query that returns some of the entries of a log with two dates
C6_Witness ==
    /\ op = "get_logs_by_date"
    /\ Len(out) >= 1
    /\ Len(out) < Len(Logs)

\* C7: a successful clear makes read_logs return the empty sequence, and the
\* next successful append produces a log of exactly one entry, with id 1.
C7_ClearThenAppend ==
    /\ (op = "clear_logs" /\ ok) =>
          read_logs(file, TRUE) = <<>> /\ read_logs(file, FALSE) = <<>>
    /\ (op = "read_logs" /\ fresh = "cleared") => out = <<>>
    /\ (Appended /\ fresh = "first") => (Len(Logs) = 1 /\ Logs[1].id = 1)

\* an append, a clear, and the first append after it
C7_Witness ==
    /\ Appended
    /\ fresh = "first"
    /\ budget = MaxAppends - 2

\* C8: log_prediction returns False on every I/O failure (log unreadable or
\* unwritable) and on a serialization failure, and returns True exactly when
\* the new log was written.
C8_NewLogWritten ==
    /\ file.kind = "list"
    /\ file # before
    /\ Len(file.doc) >= 1
    /\ file.doc[Len(file.doc)].timestamp = arg.t[1]
    /\ file.doc[Len(file.doc)].processing_time = arg.req.processing_time

C8_FalseOnAnyFailure ==
    op = "log_prediction" =>
        /\ (~io.readable \/ io.write \in {"open_fails", "write_fails"}) => ~ok
        /\ ok <=> C8_NewLogWritten

\* C9: when log_prediction returns False, the log read afterwards is the
\* log that was there before the call.
C9_FailedWriteDropped ==
    (op = "log_prediction" /\ ~ok) => Logs = LogsBefore

\* C10: read_logs returns the empty sequence when the file is absent, empty,
\* unparseable, unreadable or holds a document that is no list, and the
\* persisted entries otherwise.
C10_ReadNeverFails ==
    op = "read_logs" =>
        IF ~io.readable \/ file.kind \in {"absent", "garbage", "scalar"}
        THEN out = <<>>
        ELSE /\ file.kind = "list"
             /\ out = file.doc
             /\ \A i \in 1..Len(out) : out[i].id = i

\* a document that is no list, read as no history
C10_Witness ==
    /\ op = "read_logs"
    /\ io.readable
    /\ file.kind = "scalar"
    /\ Len(file.doc) = 1
    /\ out = <<>>

\* C11: over a file that holds a parseable list whose elements are no log
\* entries, read_logs, get_recent_logs, get_logs_by_date and get_statistics
\* return what they return on an empty store, and none of them raises.
C11_MalformedReadsAsEmpty ==
    (file \in ForeignFiles
        /\ op \in {"read_logs", "get_recent_logs", "get_logs_by_date", "get_statistics"}
        /\ io.readable) =>
        /\ ok
        /\ IF op = "get_statistics" THEN out = EmptyStatistics ELSE out = <<>>

\* C12: while two threads append and clear, the file holds a complete
\* document at every moment: a reader never finds it empty or cut short.
C12_NeverCorrupt == file.kind = "list"

\* C13: when two log_prediction calls have read the same log and both have
\* returned True, the log holds the entries they read and one new entry,
\* that of the call that wrote last; the entry of the other call is lost.
C13_LastWriterWins ==
    (/\ op = "dump"
     /\ \A p \in Threads :
            /\ calls[p].pc = "idle"
            /\ calls[p].kind = "log_prediction"
            /\ calls[p].ret
     /\ calls[1].seen = calls[2].seen
     /\ file.kind = "list") =>
        /\ Logs = calls[arg].logs
        /\ Len(Logs) = Len(calls[arg].seen) + 1
        /\ \A p \in Threads \ {arg} :
               \A i \in 1..Len(Logs) : Logs[i] # calls[p].logs[Len(calls[p].logs)]

\* two overlapping appends to a log of one entry, the only two calls of the
\* run, have both returned True and the log holds two entries
C13_Witness ==
    /\ op = "dump"
    /\ budget = MaxCalls - 2
    /\ \A p \in Threads :
           /\ calls[p].pc = "idle"
           /\ calls[p].kind = "log_prediction"
           /\ calls[p].ret
           /\ Len(calls[p].seen) = 1
    /\ Len(Logs) = 2

\* C14: log_batch_predictions returns True exactly when one of its
\* log_prediction calls succeeded; a result whose status is not "success" is
\* never logged; a batch without a success result returns False and leaves
\* the file as it was; and when every call succeeds below the cap, the log
\* grows by the number of success results.
C14_CallSucceeds(k) ==
    /\ arg.results[k].status = "success"
    /\ arg.envs[k].write = "ok"
    /\ \A j \in 1..Min(3, Len(arg.results[k].predictions)) :
           "embedding" \notin DOMAIN arg.results[k].predictions[j]

C14_Named(logs, k) ==
    { i \in 1..Len(logs) :
        logs[i].filename = "batch_image_" \o ToString(arg.results[k].image_index + 1) }

C14_BatchResult ==
    op = "log_batch_predictions" =>
        LET n    == Len(arg.results)
            succ == { k \in 1..n : arg.results[k].status = "success" }
        IN  /\ ok <=> \E k \in 1..n : C14_CallSucceeds(k)
            /\ \A k \in (1..n) \ succ :
                   Cardinality(C14_Named(Logs, k)) <= Cardinality(C14_Named(LogsBefore, k))
            /\ succ = {} => (~ok /\ file = before)
            /\ ((\A k \in succ : C14_CallSucceeds(k))
                    /\ Len(LogsBefore) + Cardinality(succ) <= MAX_LOGS) =>
                   Len(Logs) = Len(LogsBefore) + Cardinality(succ)

\* a batch of one success and one error result has added one entry to a log
\* that held one
C14_Witness ==
    /\ op = "log_batch_predictions"
    /\ ok
    /\ Len(arg.results) = 2
    /\ arg.results[2].status = "error"
    /\ Len(LogsBefore) = 1
    /\ Len(Logs) = 2

\* C15: for every success result, log_batch_predictions appends one entry
\* whose request_type is "batch" and whose filename is batch_image_ followed
\* by the result's image_index plus one (batch_image_1 for index 0,
\* batch_image_2 for index 1): when every call succeeds below the cap, the
\* new entries are those of the success results, in the order of the batch.
C15_Filename(index) ==
    CASE index = 0 -> "batch_image_1"
      [] index = 1 -> "batch_image_2"
      [] index = 2 -> "batch_image_3"

C15_BatchFilenames ==
    (op = "log_batch_predictions"
        /\ (\A k \in 1..Len(arg.results) :
               arg.results[k].status = "success" => C14_CallSucceeds(k))
        /\ Len(LogsBefore) + Len(arg.results) <= MAX_LOGS) =>
        LET succ == SelectSeq(arg.results, LAMBDA r : r.status = "success")
        IN  /\ Len(Logs) = Len(LogsBefore) + Len(succ)
            /\ \A j \in 1..Len(succ) :
                   LET e == Logs[Len(LogsBefore) + j]
                   IN  /\ e.request_type = "batch"
                       /\ e.filename = C15_Filename(succ[j].image_index)
                       /\ e.total_predictions = Len(succ[j].predictions)

\* a batch of two success results has appended batch_image_1 and
\* batch_image_2
C15_Witness ==
    /\ op = "log_batch_predictions"
    /\ arg.count = 2
    /\ Len(Logs) = Len(LogsBefore) + 2
    /\ Logs[Len(Logs) - 1].filename = "batch_image_1"
    /\ Logs[Len(Logs)].filename = "batch_image_2"
    /\ Logs[Len(Logs)].request_type = "batch"

\* C16: log_prediction with an empty list of predictions returns True when
\* the write goes through, and the entry it stores has the top_prediction
\* {class_name "unknown", confidence 0.0, confidence_percentage "0.00%"},
\* total_predictions 0 and an empty all_predictions.
C16_EmptyPredictions ==
    (op = "log_prediction" /\ Len(arg.req.predictions) = 0) =>
        /\ io.write = "ok" => ok
        /\ ok =>
              LET e == file.doc[Len(file.doc)]
              IN  /\ file.kind = "list"
                  /\ Len(file.doc) = Len(read_logs(before, io.readable)) + 1
                  /\ e.top_prediction = [class_name |-> "unknown", confidence |-> 0,
                                         confidence_percentage |-> "0.00%"]
                  /\ e.total_predictions = 0
                  /\ e.all_predictions = <<>>

\* such an entry appended to a log that held one entry
C16_Witness ==
    /\ Appended
    /\ Len(arg.req.predictions) = 0
    /\ Len(LogsBefore) = 1
    /\ Len(Logs) = 2
    /\ Logs[2].top_prediction.class_name = "unknown"

\* C17: get_statistics on an empty store (the file newly created, emptied by
\* clear_logs, absent or unparseable) returns total_predictions 0,
\* today_predictions 0, most_common_class "N/A", average_confidence 0.0,
\* single_requests 0 and batch_requests 0.
C17_EmptyStatistics ==
    (op = "get_statistics" /\ (file.kind \in {"absent", "garbage"} \/ Logs = <<>>)) =>
        /\ ok
        /\ out = [total_predictions |-> 0, today_predictions |-> 0,
                  most_common_class |-> "N/A", average_confidence |-> 0,
                  single_requests |-> 0, batch_requests |-> 0]

\* the statistics asked after an append and the clear that followed it
C17_Witness ==
    /\ op = "get_statistics"
    /\ fresh = "cleared"
    /\ budget < MaxAppends
    /\ file = JsonDump(<<>>)
    /\ out.most_common_class = "N/A"

\* C18: over a non-empty log, average_confidence is the mean of the entries'
\* top_prediction.confidence, times 100, rounded to two decimals; for entries
\* with confidences 0.5 and 0.9 it is 70.0.  (Confidences are 1/10000ths and
\* the average hundredths of a percent, so the average is the integer
\* nearest to sum / length.)
RECURSIVE C18_Sum(_, _)
C18_Sum(logs, k) ==
    IF k = 0 THEN 0 ELSE C18_Sum(logs, k - 1) + logs[k].top_prediction.confidence

C18_AverageConfidence ==
    (op = "get_statistics" /\ Len(Logs) > 0) =>
        LET n == Len(Logs)
            s == C18_Sum(Logs, n)
            a == out.average_confidence
        IN  /\ ok
            /\ 2 * (a * n - s) <= n
            /\ 2 * (s - a * n) <= n
            /\ (n = 2 /\ Logs[1].top_prediction.confidence = 5000
                      /\ Logs[2].top_prediction.confidence = 9000) => a = 7000

\* the statistics of a log whose two entries have confidences 0.5 and 0.9
C18_Witness ==
    /\ op = "get_statistics"
    /\ Len(Logs) = 2
    /\ Logs[1].top_prediction.confidence = 5000
    /\ Logs[2].top_prediction.confidence = 9000
    /\ out.average_confidence = 7000

\* C19: over a non-empty log, most_common_class is a class that no class
\* outnumbers, and among the classes with that count it is the one whose
\* first entry comes earliest in the log.
C19_Count(c) == Cardinality({ i \in 1..Len(Logs) : Logs[i].top_prediction.class_name = c })

C19_First(c) ==
    CHOOSE i \in 1..Len(Logs) :
        /\ Logs[i].top_prediction.class_name = c
        /\ \A j \in 1..(i - 1) : Logs[j].top_prediction.class_name # c

C20_FreshStatistics ==
    op = "get_statistics" =>
        LET idx == 1..Len(Logs)
        IN  /\ ok
            /\ out.total_predictions = Len(Logs)
            /\ out.today_predictions =
                   Cardinality({ i \in idx : Logs[i].date = DateOf(now) })
            /\ out.single_requests =
                   Cardinality({ i \in idx : Logs[i].request_type = "single" })
            /\ out.batch_requests =
                   Cardinality({ i \in idx : Logs[i].request_type = "batch" })

\* the statistics of a log of one single and one batch entry, one of them
\* dated today and the other the day before
C20_Witness ==
    /\ op = "get_statistics"
    /\ out.total_predictions = 2
    /\ out.today_predictions = 1
    /\ out.single_requests = 1
    /\ out.batch_requests = 1
    /\ DateOf(now) = 1

\* C21: read_logs, get_recent_logs, get_logs_by_date and get_statistics leave
\* the file as it was, whatever their argument and whether the store is
\* empty, populated or unreadable: the log read after the call is the log
\* that was there before it.
C21_ReadOps == {"read_logs", "get_recent_logs", "get_logs_by_date", "get_statistics"}

C21_ReadsPreserve ==
    op \in C21_ReadOps =>
        /\ file = before
        /\ Logs = LogsBefore

\* a read that found a populated store unreadable
C21_Witness ==
    /\ op = "read_logs"
    /\ ~io.readable
    /\ out = <<>>
    /\ Len(LogsBefore) = 2
    /\ Len(Logs) = 2

\* C22: the entry stored for a list of n predictions holds in all_predictions
\* the first min(3, n) of them, in their order, and n in total_predictions.
\* Stated of the entry a successful log_prediction call has just written, the
\* call being made directly or as the last call of a batch.
C22_Stored(e, predictions) ==
    LET n == Len(predictions)
    IN  /\ e.all_predictions = SubSeq(predictions, 1, Min(3, n))
        /\ e.total_predictions = n

C22_FirstThree ==
    /\ Appended => C22_Stored(Logs[Len(Logs)], arg.req.predictions)
    /\ (op = "log_batch_predictions"
           /\ Len(arg.results) >= 1
           /\ C14_CallSucceeds(Len(arg.results))) =>
          /\ Len(Logs) >= 1
          /\ C22_Stored(Logs[Len(Logs)], arg.results[Len(arg.results)].predictions)

\* an entry stored for four predictions holds three of them
C22_Witness ==
    /\ op = "log_batch_predictions"
    /\ ok
    /\ Len(Logs) >= 1
    /\ Logs[Len(Logs)].total_predictions = 4
    /\ Len(Logs[Len(Logs)].all_predictions) = 3
    /\ Logs[Len(Logs)].all_predictions[3] = Owl

\* C23: the top_prediction stored for a non-empty list of predictions is the
\* one with the highest confidence: no prediction of the list has a
\* confidence above top_prediction.confidence.
C23_Highest(e, predictions) ==
    \A k \in 1..Len(predictions) :
        predictions[k].confidence <= e.top_prediction.confidence

C23_TopIsHighest ==
    /\ (Appended /\ Len(arg.req.predictions) > 0) =>
          C23_Highest(Logs[Len(Logs)], arg.req.predictions)
    /\ (op = "log_batch_predictions"
           /\ Len(arg.results) >= 1
           /\ C14_CallSucceeds(Len(arg.results))
           /\ Len(Logs) >= 1) =>
          C23_Highest(Logs[Len(Logs)], arg.results[Len(arg.results)].predictions)

\* C24: in every entry log_prediction writes, date is the calendar date of
\* the entry's timestamp and time its time of day, also when the clock
\* advances while the entry is built.
C24_OwnTimestamp ==
    Appended =>
        LET e == Logs[Len(Logs)]
        IN  /\ e.date = DateOf(e.timestamp)
            /\ e.time = TimeOf(e.timestamp)

\* C25: entries are immutable once written.  A successful log_prediction
\* that does not rotate leaves the old log as a prefix of the new one; one
\* that rotates keeps the entries it retains in their order and changes
\* nothing of them but the id; and no operation other than clear_logs removes
\* an entry that rotation does not evict.
C25_Prefix(old, new) ==
    /\ Len(old) <= Len(new)
    /\ SubSeq(new, 1, Len(old)) = old

C25_AppendKeeps ==
    /\ (Appended /\ Len(LogsBefore) < MAX_LOGS) => C25_Prefix(LogsBefore, Logs)
    /\ (Appended /\ Len(LogsBefore) = MAX_LOGS) =>
          \A i \in 1..(MAX_LOGS - 1) : Logs[i] = [LogsBefore[i + 1] EXCEPT !.id = i]

C25_Immutable ==
    /\ C25_AppendKeeps
    /\ (op # "clear_logs" /\ Len(LogsBefore) < MAX_LOGS - 1) =>
          C25_Prefix(LogsBefore, Logs)

\* C28: when two threads have each made one log_prediction call on a log of
\* n entries and no other call was made, the log holds the n entries that
\* were there, in order, followed by one or both of the new entries.
C28_OldEntriesKept ==
    (/\ budget = MaxCalls - 2
     /\ \A p \in Threads :
            /\ calls[p].pc = "idle"
            /\ calls[p].kind = "log_prediction"
            /\ calls[p].ret) =>
        /\ Len(Logs) \in {streak + 1, streak + 2}
        /\ SubSeq(Logs, 1, streak) = PreviousRun(streak)
        /\ \A i \in (streak + 1)..Len(Logs) :
               \E p \in Threads : Logs[i].filename = calls[p].logs[Len(calls[p].logs)].filename

\* C29: in the statistics of every log, single_requests + batch_requests is
\* total_predictions: an entry without request_type or with the value
\* "single" is counted as single, an entry with any other value as batch.
C29_RequestCounts ==
    (op = "get_statistics" /\ ok) =>
        LET idx     == 1..Len(Logs)
            singles == { i \in idx : "request_type" \notin DOMAIN Logs[i]
                                        \/ Logs[i].request_type = "single" }
        IN  /\ out.single_requests + out.batch_requests = out.total_predictions
            /\ out.total_predictions = Len(Logs)
            /\ out.single_requests = Cardinality(singles)
            /\ out.batch_requests = Cardinality(idx \ singles)

\* the statistics of a log whose entries are marked "single", "batch" and
\* "api" and not marked at all
C29_Witness ==
    /\ op = "get_statistics"
    /\ file = TypedFile
    /\ out.total_predictions = 4
    /\ out.single_requests = 2
    /\ out.batch_requests = 2

\* C26: a request whose image passes validation and is classified gets the
\* classifier's result as its response, through either front-end, and the
\* result is appended to the history: when the write goes through, the log
\* has one more entry, that of the request.  The response does not depend on
\* how the append ends.
C26_Served ==
    /\ op \in {"classify_single_image", "process_single_image"}
    /\ arg.upload.field
    /\ arg.upload.name \in {"cat.jpg", "photo.PNG"}
    /\ arg.upload.content = "image"
    /\ arg.classifier = "returns"

C26_ValidateClassifyLog ==
    C26_Served =>
        /\ out.status \in {"200", "result"}
        /\ out.predictions = Classified
        /\ ok
        /\ io.write \in {"ok", "none"} =>
              /\ Len(Logs) = Len(LogsBefore) + 1
              /\ Logs[Len(Logs)].top_prediction.class_name = Classified[1].class_name

\* C27: the launcher tries Flask first and falls back to Streamlit.  When
\* FORCE_STREAMLIT is not set, Streamlit is started only after a Flask
\* import or a Flask server start has failed, and every such failure is
\* followed by a Streamlit start; when FORCE_STREAMLIT is true, 1 or yes,
\* Flask is never started and Streamlit is run.
C27_Launchers == {"app_launcher.main", "main.main"}

C27_FlaskFailure(e) == e \in {"flask_import_failed", "flask_failed"}

C27_FlaskThenStreamlit ==
    op \in C27_Launchers =>
        LET events == out.events
            n      == Len(events)
        IN  IF force_streamlit(arg)
            THEN /\ \A i \in 1..n : events[i] = "streamlit_start"
                 /\ n >= 1
            ELSE /\ \A i \in 1..n :
                        events[i] = "streamlit_start" =>
                            \E j \in 1..(i - 1) : C27_FlaskFailure(events[j])
                 /\ \A i \in 1..n :
                        C27_FlaskFailure(events[i]) =>
                            \E j \in (i + 1)..n : events[j] = "streamlit_start"

====
